---- MODULE Spec2Model ----
(***************************************************************************)
(* A model of the haversine crate (src/src/lib.rs): the Location value,    *)
(* its two From conversions and its three distance methods.                *)
(*                                                                         *)
(* The crate computes in IEEE-754 binary64 (f64), and what it returns is   *)
(* decided by rounding, so the model computes in binary64 too: a float is  *)
(* a sign, a 53-bit significand and an exponent, and every arithmetic      *)
(* operation is the exact result rounded to nearest, ties to even.  TLC's  *)
(* integers have 32 bits, so significands are kept as sequences of 15-bit  *)
(* limbs (least significant first).                                        *)
(*                                                                         *)
(* Intermediate values are passed on as operator arguments: TLC evaluates  *)
(* an argument once, on first use.                                         *)
(***************************************************************************)
EXTENDS Integers, Sequences, FiniteSets, TLC

(***************************************************************************)
(* Natural numbers of any size: sequences of limbs, least significant      *)
(* first, with no leading (last) zero limb; zero is the empty sequence.    *)
(***************************************************************************)
LimbBits == 5 * 3
Base == 2^LimbBits

\* TLC evaluates operator arguments lazily and keeps one stack frame per
\* nested call.  Strict(v, e) is e, with v evaluated first; Iter runs
\* Step(st, lo), ..., Step(st, hi) in order by halving the range, so a loop
\* of n rounds nests only log n calls.
Strict(v, e) == IF v = v THEN e ELSE e

RECURSIVE Iter(_, _, _, _)
Iter(Step(_, _), st, lo, hi) ==
    IF lo > hi THEN st
    ELSE IF lo = hi THEN Step(st, lo)
    ELSE LET left == Iter(Step, st, lo, (lo + hi) \div 2)
         IN  Strict(left, Iter(Step, left, ((lo + hi) \div 2) + 1, hi))

Max(a, b) == IF a >= b THEN a ELSE b
Min(a, b) == IF a <= b THEN a ELSE b

BLimb(x, i) == IF i <= Len(x) THEN x[i] ELSE 0

\* The greatest element of a non-empty set of integers.
SetMax(S) == CHOOSE i \in S : \A j \in S : j <= i

\* x without its leading zero limbs.
BTrimTo(s, nz) == IF nz = {} THEN <<>> ELSE SubSeq(s, 1, SetMax(nz))
BTrim(s) ==
    IF s = <<>> THEN s
    ELSE IF s[Len(s)] # 0 THEN s
    ELSE BTrimTo(s, {i \in 1..Len(s) : s[i] # 0})

BFromInt(i) ==
    BTrim(<<i % Base, (i \div Base) % Base, i \div (Base * Base)>>)

\* x + y.  S holds the limb sums; the carry into limb i comes from the
\* nearest lower limb whose sum is not Base - 1 (such a limb passes on the
\* carry it receives).
CarryFrom(S, J) == IF J = {} THEN 0 ELSE S[SetMax(J)] \div Base
CarryIn(S, i) ==
    IF i = 1 THEN 0
    ELSE IF S[i - 1] # Base - 1 THEN S[i - 1] \div Base
    ELSE CarryFrom(S, {j \in 1..(i - 2) : S[j] # Base - 1})

BAddSums(S, n) == BTrim([i \in 1..n |-> (S[i] + CarryIn(S, i)) % Base])
BAddLen(x, y, n) == BAddSums([i \in 1..n |-> BLimb(x, i) + BLimb(y, i)], n)
BAdd(x, y) ==
    IF x = <<>> THEN y
    ELSE IF y = <<>> THEN x
    ELSE BAddLen(x, y, Max(Len(x), Len(y)) + 1)

\* x - y for x >= y.  D holds the limb differences; the borrow into limb i
\* comes from the nearest lower limb whose difference is not 0.
BorrowFrom(D, J) == IF J = {} THEN 0 ELSE IF D[SetMax(J)] < 0 THEN 1 ELSE 0
BorrowIn(D, i) ==
    IF i = 1 THEN 0
    ELSE IF D[i - 1] # 0 THEN (IF D[i - 1] < 0 THEN 1 ELSE 0)
    ELSE BorrowFrom(D, {j \in 1..(i - 2) : D[j] # 0})

BSubDiffs(D, n) == BTrim([i \in 1..n |-> ((D[i] - BorrowIn(D, i)) + Base) % Base])
BSub(x, y) ==
    IF y = <<>> \/ x = <<>> THEN x
    ELSE BSubDiffs([i \in 1..Len(x) |-> x[i] - BLimb(y, i)], Len(x))

\* -1, 0, 1 as x < y, x = y, x > y.
BCmpAt(x, y, df) ==
    IF df = {} THEN 0 ELSE IF x[SetMax(df)] < y[SetMax(df)] THEN -1 ELSE 1
BCmp(x, y) ==
    IF Len(x) < Len(y) THEN -1
    ELSE IF Len(x) > Len(y) THEN 1
    ELSE BCmpAt(x, y, {i \in 1..Len(x) : x[i] # y[i]})

\* x * k for 0 <= k <= Base: the low halves of the limb products plus their
\* high halves one limb up.
BMulSmall(x, k) ==
    IF x = <<>> \/ k = 0 THEN <<>>
    ELSE BAdd([i \in 1..Len(x) |-> (x[i] * k) % Base],
              [i \in 1..(Len(x) + 1) |-> IF i = 1 THEN 0 ELSE (x[i - 1] * k) \div Base])

\* x * Base^n.
BShiftLimbs(x, n) == IF x = <<>> THEN x ELSE [i \in 1..n |-> 0] \o x

\* x * y: the rows x * y[i] * Base^(i-1), summed.
BAddRow(acc, row) == Strict(row, BAdd(acc, row))
BMulStep(x, y, acc, i) == BAddRow(acc, BShiftLimbs(BMulSmall(x, y[i]), i - 1))

BMul(x, y) ==
    IF x = <<>> \/ y = <<>> THEN <<>>
    ELSE Iter(LAMBDA acc, i : BMulStep(x, y, acc, i), <<>>, 1, Len(y))

\* Quotient and remainder of x by k, 0 < k <= Base, from the top limb down.
BDivSmallPut(k, st, t) == [r |-> t % k, q |-> <<t \div k>> \o st.q]
BDivSmallStep(x, k, st, j) ==
    BDivSmallPut(k, st, (st.r * Base) + x[Len(x) + 1 - j])

BDivSmallTrim(d) == [q |-> BTrim(d.q), r |-> d.r]
BDivSmall(x, k) ==
    BDivSmallTrim(Iter(LAMBDA st, j : BDivSmallStep(x, k, st, j),
                       [r |-> 0, q |-> <<>>], 1, Len(x)))

\* x * 2^n and floor(x / 2^n).
BShlLimbs(y, n) == Strict(y, BShiftLimbs(y, n))
BShl(x, n) ==
    IF x = <<>> THEN x
    ELSE BShlLimbs(BMulSmall(x, 2^(n % LimbBits)), n \div LimbBits)

BShrBits(y, s) ==
    BTrim([i \in 1..Len(y) |->
             (y[i] \div (2^s)) + ((BLimb(y, i + 1) % (2^s)) * (2^(LimbBits - s)))])
BShr(x, n) ==
    IF n \div LimbBits >= Len(x) THEN <<>>
    ELSE BShrBits(SubSeq(x, (n \div LimbBits) + 1, Len(x)), n % LimbBits)

IntBitLen(i) == CHOOSE n \in 0..(2 * LimbBits) : i < 2^n /\ (n = 0 \/ i >= 2^(n - 1))

BBitLen(x) ==
    IF x = <<>> THEN 0 ELSE (LimbBits * (Len(x) - 1)) + IntBitLen(x[Len(x)])

\* Whether x is a multiple of 2^n.
BLowZero(x, n) ==
    /\ \A i \in 1..(n \div LimbBits) : BLimb(x, i) = 0
    /\ BLimb(x, (n \div LimbBits) + 1) % (2^(n % LimbBits)) = 0

\* Bit n of x (bit 0 the least significant).
BBit(x, n) == (BLimb(x, (n \div LimbBits) + 1) \div (2^(n % LimbBits))) % 2

(***************************************************************************)
(* Long division, one quotient limb at a time.  The divisor is scaled so   *)
(* that its top limb is at least Base/2; the trial limb taken from the top *)
(* two limbs of the remainder is then at most 2 too large.                 *)
(***************************************************************************)
RECURSIVE BFitLimb(_, _, _)
RECURSIVE BFitProduct(_, _, _, _)
BFitLimb(d, r, q) == BFitProduct(d, r, q, BMulSmall(d, q))
BFitProduct(d, r, q, p) ==
    Strict(p, IF BCmp(p, r) > 0 THEN BFitLimb(d, r, q - 1) ELSE q)

BTrialQuot(d, r, t) == BFitLimb(d, r, IF t > Base - 1 THEN Base - 1 ELSE t)
BTrialLimb(d, r) ==
    BTrialQuot(d, r, ((BLimb(r, Len(d) + 1) * Base) + BLimb(r, Len(d))) \div d[Len(d)])

BDivPut(st, cur, ql, p) ==
    Strict(<<cur, ql, p>>, [r |-> BSub(cur, p), q |-> <<ql>> \o st.q])
BDivLimb(d, st, cur, ql) == BDivPut(st, cur, ql, BMulSmall(d, ql))
BDivCur(d, st, cur) == BDivLimb(d, st, cur, BTrialLimb(d, cur))
BDivStep(x, d, st, j) == BDivCur(d, st, BTrim(<<x[Len(x) + 1 - j]>> \o st.r))

\* Quotient and remainder of x by d, d > 0.
BDivUnscale(res, s) == Strict(res, [q |-> BTrim(res.q), r |-> BShr(res.r, s)])
BDivScaled(xs, ds, s) ==
    Strict(<<xs, ds>>,
           BDivUnscale(Iter(LAMBDA st, j : BDivStep(xs, ds, st, j),
                            [r |-> <<>>, q |-> <<>>], 1, Len(xs)), s))
BDivShift(x, d, s) == BDivScaled(BShl(x, s), BShl(d, s), s)
BDivMod(x, d) == BDivShift(x, d, LimbBits - IntBitLen(d[Len(d)]))

\* floor(sqrt(x)) by Newton's iteration from above.
RECURSIVE BSqrtFrom(_, _)
RECURSIVE BSqrtNext(_, _, _)
BSqrtFrom(x, g) == BSqrtNext(x, g, BShr(BAdd(g, BDivMod(x, g).q), 1))
BSqrtNext(x, g, h) == Strict(h, IF BCmp(h, g) >= 0 THEN g ELSE BSqrtFrom(x, h))

BSqrtStart(x, g) == Strict(g, BSqrtFrom(x, g))
BSqrt(x) ==
    IF x = <<>> THEN <<>>
    ELSE BSqrtStart(x, BShl(<<1>>, (BBitLen(x) + 1) \div 2))

(***************************************************************************)
(* IEEE-754 binary floating point.  A format is its precision p and the    *)
(* exponents of the unit in the last place of its least and its greatest   *)
(* finite values.  A finite value is (-1)^s * m * 2^e with m < 2^p, kept   *)
(* in one form only (m has p bits, or e = emin; zero has e = 0), so two    *)
(* values are the same bits exactly when the records are equal.            *)
(***************************************************************************)
F64 == [p |-> 53, emin |-> -1074, emax |-> 971]
F32 == [p |-> 24, emin |-> -149, emax |-> 104]

NaN == [k |-> "nan", s |-> 0, m |-> <<>>, e |-> 0]
Inf(s) == [k |-> "inf", s |-> s, m |-> <<>>, e |-> 0]
Zero(s) == [k |-> "fin", s |-> s, m |-> <<>>, e |-> 0]
Fin(s, m, e) == [k |-> "fin", s |-> s, m |-> m, e |-> e]

IsNaN(x) == x.k = "nan"
IsInf(x) == x.k = "inf"
IsFinite(x) == x.k = "fin"
IsZero(x) == x.k = "fin" /\ x.m = <<>>

\* m * 2^e with m <= 2^p and e >= emin, as a value of the format.
Pack(fmt, s, m, e) ==
    IF m = <<>> THEN Zero(s)
    ELSE IF BBitLen(m) > fmt.p
         THEN (IF e + 1 > fmt.emax THEN Inf(s) ELSE Fin(s, BShr(m, 1), e + 1))
    ELSE IF e > fmt.emax THEN Inf(s)
    ELSE Fin(s, m, e)

\* The value of the format nearest to (n + f) * 2^e, ties to even, where
\* 0 < f < 1 if sticky and f = 0 otherwise.  With sticky, n has at least
\* p + 2 bits.  RoundTo drops the low sh bits of n, q being the bits kept.
RoundUp(n, sh, sticky, q) ==
    /\ BBit(n, sh - 1) = 1
    /\ (sticky \/ ~BLowZero(n, sh - 1) \/ BBit(q, 0) = 1)
RoundKept(fmt, s, n, e2, sh, sticky, q) ==
    Pack(fmt, s, IF RoundUp(n, sh, sticky, q) THEN BAdd(q, <<1>>) ELSE q, e2)
RoundTo(fmt, s, n, e, sticky, e2) ==
    IF e2 - e <= 0 THEN Pack(fmt, s, BShl(n, e - e2), e2)
    ELSE RoundKept(fmt, s, n, e2, e2 - e, sticky, BShr(n, e2 - e))
Round(fmt, s, n, e, sticky) ==
    IF n = <<>> THEN Zero(s)
    ELSE RoundTo(fmt, s, n, e, sticky, Max((e + BBitLen(n)) - fmt.p, fmt.emin))

\* A decimal literal: the digits d1 d2 ... dn times 10^e10, rounded once.
DigitsToNat(digits) ==
    Iter(LAMBDA acc, i : BAdd(BMulSmall(acc, 10), BFromInt(digits[i])),
         <<>>, 1, Len(digits))

Pow10(n) == Iter(LAMBDA acc, i : BMulSmall(acc, 10), <<1>>, 1, n)

DecimalQuot(fmt, s, t, dm) == Strict(dm, Round(fmt, s, dm.q, 0 - t, dm.r # <<>>))
DecimalDiv(fmt, s, t, num, den) ==
    Strict(<<num, den>>, DecimalQuot(fmt, s, t, BDivMod(num, den)))
DecimalScale(fmt, s, d, den, t) == DecimalDiv(fmt, s, t, BShl(d, t), den)
DecimalOver(fmt, s, d, den) ==
    DecimalScale(fmt, s, d, den, Max(0, (fmt.p + 3 + BBitLen(den)) - BBitLen(d)))
DecimalOf(fmt, s, d, e10) ==
    IF d = <<>> THEN Zero(s)
    ELSE IF e10 >= 0 THEN Round(fmt, s, BMul(d, Pow10(e10)), 0, FALSE)
    ELSE DecimalOver(fmt, s, d, Pow10(0 - e10))
FromDecimal(fmt, s, digits, e10) == DecimalOf(fmt, s, DigitsToNat(digits), e10)

\* An f64 and an f32 literal of the source.
Lit64(s, digits, e10) == FromDecimal(F64, s, digits, e10)
Lit32(s, digits, e10) == FromDecimal(F32, s, digits, e10)

FNeg(x) == IF IsNaN(x) THEN x ELSE [x EXCEPT !.s = 1 - x.s]
FAbs(x) == IF IsNaN(x) THEN x ELSE [x EXCEPT !.s = 0]

\* x + y in f64: a and b are the significands at the common exponent e.
FAddAligned(x, y, e, a, b, c) ==
    IF x.s = y.s THEN Round(F64, x.s, BAdd(a, b), e, FALSE)
    ELSE IF c = 0 THEN Zero(0)
    ELSE IF c > 0 THEN Round(F64, x.s, BSub(a, b), e, FALSE)
    ELSE Round(F64, y.s, BSub(b, a), e, FALSE)
FAddCmp(x, y, e, a, b) == Strict(<<a, b>>, FAddAligned(x, y, e, a, b, BCmp(a, b)))
FAddAt(x, y, e) == FAddCmp(x, y, e, BShl(x.m, x.e - e), BShl(y.m, y.e - e))
FAddFinite(x, y) == FAddAt(x, y, Min(x.e, y.e))

FAdd(x, y) ==
    IF IsNaN(x) \/ IsNaN(y) THEN NaN
    ELSE IF IsInf(x) THEN (IF IsInf(y) /\ y.s # x.s THEN NaN ELSE x)
    ELSE IF IsInf(y) THEN y
    ELSE IF IsZero(x) /\ IsZero(y) THEN Zero(IF x.s = 1 /\ y.s = 1 THEN 1 ELSE 0)
    ELSE IF IsZero(x) THEN y
    ELSE IF IsZero(y) THEN x
    ELSE FAddFinite(x, y)

FSub(x, y) == FAdd(x, FNeg(y))

Xor(s, t) == (s + t) % 2

\* x * y in f64.
FMulRound(s, n, e) == Strict(n, Round(F64, s, n, e, FALSE))
FMul(x, y) ==
    IF IsNaN(x) \/ IsNaN(y) THEN NaN
    ELSE IF IsInf(x) \/ IsInf(y)
         THEN (IF IsZero(x) \/ IsZero(y) THEN NaN ELSE Inf(Xor(x.s, y.s)))
    ELSE IF IsZero(x) \/ IsZero(y) THEN Zero(Xor(x.s, y.s))
    ELSE FMulRound(Xor(x.s, y.s), BMul(x.m, y.m), x.e + y.e)

\* x / y in f64: a quotient of at least p + 2 bits and whether it is inexact.
FDivRound(s, e, dm) == Strict(dm, Round(F64, s, dm.q, e, dm.r # <<>>))
FDivQuot(s, e, num, den) == Strict(num, FDivRound(s, e, BDivMod(num, den)))
FDivScale(x, y, t) ==
    FDivQuot(Xor(x.s, y.s), (x.e - y.e) - t, BShl(x.m, t), y.m)
FDiv(x, y) ==
    IF IsNaN(x) \/ IsNaN(y) THEN NaN
    ELSE IF IsInf(x) THEN (IF IsInf(y) THEN NaN ELSE Inf(Xor(x.s, y.s)))
    ELSE IF IsInf(y) THEN Zero(Xor(x.s, y.s))
    ELSE IF IsZero(y) THEN (IF IsZero(x) THEN NaN ELSE Inf(Xor(x.s, y.s)))
    ELSE IF IsZero(x) THEN Zero(Xor(x.s, y.s))
    ELSE FDivScale(x, y, Max(0, (F64.p + 3 + BBitLen(y.m)) - BBitLen(x.m)))

\* sqrt(x) in f64: the integer root of n = m * 2^t, with e - t even and the
\* root of at least p + 2 bits, and whether it is inexact.
FSqrtRound(e, n, r) == Strict(r, Round(F64, 0, r, e, BMul(r, r) # n))
FSqrtRoot(e, n) == Strict(n, FSqrtRound(e, n, BSqrt(n)))
FSqrtScale(x, t) == FSqrtRoot((x.e - t) \div 2, BShl(x.m, t))
FSqrtEven(x, t0) == FSqrtScale(x, IF (x.e - t0) % 2 = 0 THEN t0 ELSE t0 + 1)
FSqrt(x) ==
    IF IsNaN(x) THEN NaN
    ELSE IF IsZero(x) THEN x
    ELSE IF x.s = 1 THEN NaN
    ELSE IF IsInf(x) THEN x
    ELSE FSqrtEven(x, Max(0, ((2 * F64.p) + 4) - BBitLen(x.m)))

\* The comparisons of IEEE-754: NaN is unordered, and -0 equals +0.
FEq(x, y) ==
    /\ ~IsNaN(x) /\ ~IsNaN(y)
    /\ (x = y \/ (IsZero(x) /\ IsZero(y)))

\* |x| < |y| for x, y not NaN.
MagLt(x, y) ==
    IF IsInf(x) THEN FALSE
    ELSE IF IsInf(y) THEN TRUE
    ELSE IF IsZero(y) THEN FALSE
    ELSE IF IsZero(x) THEN TRUE
    ELSE x.e < y.e \/ (x.e = y.e /\ BCmp(x.m, y.m) < 0)

FLt(x, y) ==
    /\ ~IsNaN(x) /\ ~IsNaN(y)
    /\ ~(IsZero(x) /\ IsZero(y))
    /\ IF x.s # y.s THEN x.s = 1
       ELSE IF x.s = 0 THEN MagLt(x, y) ELSE MagLt(y, x)

FLe(x, y) == FLt(x, y) \/ FEq(x, y)

\* ------------------------------------------------------------------
\* The elementary functions f64::sin, f64::cos and f64::atan2, modelled
\* as correctly rounded.  Working values are fixed-point integers with
\* FixBits fractional bits; pi/2 and the arctangent table carry WideBits.
\* The argument reduction is exact enough for |x| < 2^63.
FixLimbs == 2 * 4
FixBits == FixLimbs * LimbBits
WideBits == 2 * FixBits
SeriesTerms == 2 * 8

\* floor(pi/2 * 2^WideBits)
PiOver2Wide ==
    <<30247, 31384, 4189, 18240, 19705, 546, 295, 20777, 14393, 11779,
      13076, 19532, 6214, 2138, 27985, 18703, 1>>

\* floor(atan(j/8) * 2^WideBits) for j = 1..8
AtanEighthsWide ==
    << <<16237, 21983, 30281, 22818, 15157, 24421, 22986, 28536, 20753,
         10191, 19404, 13000, 30428, 21893, 28326, 4074>>,
       <<9490, 15166, 31290, 1750, 8910, 18460, 10234, 31925, 26757,
         31483, 18334, 10971, 7084, 19232, 15100, 8027>>,
       <<6564, 26058, 3687, 22321, 29346, 6010, 12423, 8399, 32546,
         8924, 17986, 20010, 15395, 29295, 6465, 11756>>,
       <<29873, 5862, 17822, 31747, 12518, 22642, 17026, 16603, 7494,
         27836, 18571, 5567, 21466, 12509, 26373, 15192>>,
       <<4920, 18650, 21750, 15079, 21171, 31756, 25241, 9160, 17463,
         11467, 3448, 23268, 23033, 24318, 5975, 18304>>,
       <<3268, 19659, 1313, 20281, 27435, 20797, 31777, 20337, 32172,
         21642, 8700, 8397, 28818, 9886, 8006, 21086>>,
       <<25802, 10942, 72, 21509, 19577, 6178, 24251, 7838, 9284, 9249,
         13973, 7769, 6631, 30790, 20362, 23554>>,
       <<15123, 32076, 2094, 25504, 9852, 16657, 16531, 26772, 23580,
         5889, 6538, 9766, 3107, 17453, 30376, 25735>> >>

FixOne == BShiftLimbs(<<1>>, FixLimbs)
FixMul(a, b) == BShr(BMul(a, b), FixBits)

\* One term of an alternating series in y: t is the previous term (or
\* power), pos and neg collect the terms of either sign.
SeriesPut(r) == Strict(r, r)
SeriesAcc(st, k, t, term) ==
    SeriesPut(IF k % 2 = 1
              THEN [t |-> t, pos |-> st.pos, neg |-> BAdd(st.neg, term)]
              ELSE [t |-> t, pos |-> BAdd(st.pos, term), neg |-> st.neg])
SeriesSum(st) == BSub(st.pos, st.neg)
SeriesInit == [t |-> FixOne, pos |-> FixOne, neg |-> <<>>]

\* sin(r) / r = 1 - y/3! + y^2/5! - ...   with y = r^2
SinTerm(st, k, t) == SeriesAcc(st, k, t, t)
SinStep(y, st, k) ==
    SinTerm(st, k, BDivSmall(FixMul(st.t, y), (2 * k) * ((2 * k) + 1)).q)
SinSeries(y) ==
    SeriesSum(Iter(LAMBDA st, k : SinStep(y, st, k), SeriesInit, 1, SeriesTerms))

\* cos(r) = 1 - y/2! + y^2/4! - ...
CosStep(y, st, k) ==
    SinTerm(st, k, BDivSmall(FixMul(st.t, y), ((2 * k) - 1) * (2 * k)).q)
CosSeries(y) ==
    SeriesSum(Iter(LAMBDA st, k : CosStep(y, st, k), SeriesInit, 1, SeriesTerms))

\* atan(u) / u = 1 - y/3 + y^2/5 - ...   with y = u^2 < 1/64
AtanTerm(st, k, t) == SeriesAcc(st, k, t, BDivSmall(t, (2 * k) + 1).q)
AtanStep(y, st, k) == AtanTerm(st, k, FixMul(st.t, y))
AtanSeries(y) ==
    SeriesSum(Iter(LAMBDA st, k : AtanStep(y, st, k), SeriesInit, 1, SeriesTerms))

\* |x| = n * pi/2 + r with |r| <= pi/4:  quad = n mod 4, neg = (r < 0),
\* |r| = d * 2^e with d of at most FixLimbs limbs.  With X = |x| * 2^WideBits
\* and dm the quotient and remainder of 2X + pi/2 by pi, D = 2|r| * 2^WideBits.
ReduceCut(dm, neg, D, drop) ==
    [quad |-> BLimb(dm.q, 1) % 4, neg |-> neg,
     d |-> SubSeq(D, drop + 1, Len(D)),
     e |-> (drop * LimbBits) - (WideBits + 1)]
ReduceTop(dm, neg, D) == ReduceCut(dm, neg, D, Max(Len(D) - FixLimbs, 0))
ReduceMag(dm, neg) ==
    ReduceTop(dm, neg, IF neg THEN BSub(PiOver2Wide, dm.r)
                       ELSE BSub(dm.r, PiOver2Wide))
ReduceRem(dm) == Strict(dm, ReduceMag(dm, BCmp(dm.r, PiOver2Wide) < 0))
ReduceDiv(X) ==
    ReduceRem(BDivMod(BAdd(BShl(X, 1), PiOver2Wide), BShl(PiOver2Wide, 1)))
Reduce(x) == ReduceDiv(BShl(x.m, x.e + WideBits))

\* r^2 as a fixed-point value, for |r| = d * 2^e < 1
FixSquare(d, e) == BShr(BMul(d, d), 0 - ((2 * e) + FixBits))

IsTiny(x) == x.e + BBitLen(x.m) <= 0 - 27

\* sin or cos of the finite nonzero x that is not tiny: which = 0 for
\* sin, 1 for cos; xs is the sign the argument gives the result, q the
\* quadrant and y the square of the reduced argument.
SinCosQuad(xs, red, y, q) ==
    IF q % 2 = 0
    THEN Round(F64, (xs + (IF red.neg THEN 1 ELSE 0) + (q \div 2)) % 2,
               BMul(red.d, SinSeries(y)), red.e - FixBits, TRUE)
    ELSE Round(F64, (xs + (q \div 2)) % 2, CosSeries(y), 0 - FixBits, TRUE)
SinCosOf(x, which, red) ==
    Strict(red, SinCosQuad(IF which = 0 THEN x.s ELSE 0, red,
                           FixSquare(red.d, red.e), (red.quad + which) % 4))
SinCos(x, which) == SinCosOf(x, which, Reduce(x))

One64 == Fin(0, BShl(<<1>>, F64.p - 1), 1 - F64.p)

FSin(x) ==
    IF ~IsFinite(x) THEN NaN
    ELSE IF IsZero(x) \/ IsTiny(x) THEN x
    ELSE SinCos(x, 0)

FCos(x) ==
    IF ~IsFinite(x) THEN NaN
    ELSE IF IsZero(x) \/ IsTiny(x) THEN One64
    ELSE SinCos(x, 1)

\* The multiple k * pi/4 (k = 1..4) rounded to binary64, with sign s.
PiQuarters(s, k) == Round(F64, s, BMulSmall(PiOver2Wide, k), 0 - (WideBits + 1), TRUE)

\* atan(lo / hi) for the finite positive magnitudes lo <= hi, as
\* [j, neg, n, e]: the angle is atan(j/8) + (-1)^neg * n * 2^e, j in 0..8.
\* lo / hi = (A / H) * 2^sc; j is the multiple of 1/8 nearest to it, and
\* u = num / den = (A/H - j/8) / (1 + (A/H)(j/8)) is what the series takes.
AtanSum(sc, j, neg, t, U) ==
    [j |-> j, neg |-> neg,
     n |-> BMul(U, AtanSeries(BShr(BMul(U, U), (2 * (t - sc)) - FixBits))),
     e |-> (sc - t) - FixBits]
AtanQuot(sc, j, neg, num, den, t) ==
    AtanSum(sc, j, neg, t, BDivMod(BShl(num, t), den).q)
AtanNum(sc, j, neg, num, den) ==
    IF num = <<>> THEN [j |-> j, neg |-> FALSE, n |-> <<>>, e |-> 0 - WideBits]
    ELSE AtanQuot(sc, j, neg, num, den,
                  Max(0, (FixBits + 2 + BBitLen(den)) - BBitLen(num)))
AtanSign(sc, j, A8, jH, den, neg) ==
    AtanNum(sc, j, neg, IF neg THEN BSub(jH, A8) ELSE BSub(A8, jH), den)
AtanSplit(sc, j, A8, jH, den) == AtanSign(sc, j, A8, jH, den, BCmp(A8, jH) < 0)
AtanRatio(A, H, sc, j) ==
    AtanSplit(sc, j, BShl(A, 3), BMulSmall(H, j),
              BAdd(BShl(H, 3), BMulSmall(A, j)))
AtanNear(A, H) ==
    AtanRatio(A, H, 0, BLimb(BDivMod(BAdd(BShl(A, 4), H), BShl(H, 1)).q, 1))
AtanAlign(lo, hi, E) == AtanNear(BShl(lo.m, lo.e - E), BShl(hi.m, hi.e - E))
AtanParts(lo, hi) ==
    IF lo.e + BBitLen(lo.m) <= (hi.e + BBitLen(hi.m)) - 5
    THEN AtanRatio(lo.m, hi.m, lo.e - hi.e, 0)
    ELSE AtanAlign(lo, hi, Min(lo.e, hi.e))

\* atan2 of finite nonzero y and x: th = atan(lo / hi), ph the angle in the
\* first quadrant, then its mirror image if x < 0.
Atan2Half(y, x, ph) ==
    Round(F64, y.s, IF x.s = 1 THEN BSub(BShl(PiOver2Wide, 1), ph) ELSE ph,
          0 - WideBits, TRUE)
Atan2Octant(y, x, swap, th) ==
    Atan2Half(y, x, IF swap THEN BSub(PiOver2Wide, th) ELSE th)
Atan2Wide(y, x, swap, p, v) ==
    Atan2Octant(y, x, swap,
                IF p.j = 0 THEN v
                ELSE IF p.neg THEN BSub(AtanEighthsWide[p.j], v)
                ELSE BAdd(AtanEighthsWide[p.j], v))
Atan2Place(y, x, swap, p) ==
    IF p.j = 0 /\ ~swap /\ x.s = 0
    THEN Round(F64, y.s, p.n, p.e, TRUE)
    ELSE Atan2Wide(y, x, swap, p, BShr(p.n, 0 - (p.e + WideBits)))
Atan2Of(y, x, swap) ==
    Atan2Place(y, x, swap,
               AtanParts(IF swap THEN x ELSE y, IF swap THEN y ELSE x))
Atan2Finite(y, x) == Atan2Of(y, x, MagLt(x, y))

\* self.atan2(other): the angle of the point (x, y), y being self.
FAtan2(y, x) ==
    IF IsNaN(y) \/ IsNaN(x) THEN NaN
    ELSE IF IsZero(y)
         THEN (IF x.s = 1 THEN PiQuarters(y.s, 4) ELSE Zero(y.s))
    ELSE IF IsZero(x) THEN PiQuarters(y.s, 2)
    ELSE IF IsInf(y)
         THEN (IF ~IsInf(x) THEN PiQuarters(y.s, 2)
               ELSE IF x.s = 1 THEN PiQuarters(y.s, 3)
               ELSE PiQuarters(y.s, 1))
    ELSE IF IsInf(x)
         THEN (IF x.s = 1 THEN PiQuarters(y.s, 4) ELSE Zero(y.s))
    ELSE Atan2Finite(y, x)

\* ------------------------------------------------------------------
\* The crate: struct Location and its conversions and methods.

\* f64 literals of the source
Two == Lit64(0, <<2>>, 0)
\* std::f64::consts::PI and f64::to_radians (self * (PI / 180.0))
PI == Lit64(0, <<3, 1, 4, 1, 5, 9, 2, 6, 5, 3, 5, 8, 9, 7, 9, 3, 2, 3, 8, 4,
                 6, 2, 6, 4, 3, 3, 8, 3, 2, 7, 9, 5, 0, 2, 8, 8>>, 0 - 35)
RADS_PER_DEG == FDiv(PI, Lit64(0, <<1, 8, 0>>, 0))
to_radians(x) == FMul(x, RADS_PER_DEG)

\* `x as f64` for an f32 x: the same real number in the wider format.
WidenF32(x) == IF IsFinite(x) THEN Round(F64, x.s, x.m, x.e, FALSE) ELSE x

Location(lat, lon) == [latitude |-> lat, longitude |-> lon]

\* Faulty variants of the definitions below: with one of them in place of
\* the definition it is named after, a property of the crate must fail.
from_f64_swapped(t) == [latitude |-> t[2], longitude |-> t[1]]
from_f32_swapped(t) == [latitude |-> WidenF32(t[2]), longitude |-> WidenF32(t[1])]

\* impl From<(f64, f64)> for Location
from_f64(t) == Location(t[1], t[2])

\* impl From<(f32, f32)> for Location
from_f32(t) == Location(WidenF32(t[1]), WidenF32(t[2]))

\* #[derive(PartialEq)]: fields compared with the f64 `==`.
Location_eq(a, b) ==
    FEq(a.latitude, b.latitude) /\ FEq(a.longitude, b.longitude)

KILOMETERS == Lit64(0, <<6, 3, 7, 1, 0, 0, 8, 7, 7, 1, 4>>, 0 - 7)
MILES == Lit64(0, <<3, 9, 5, 8, 7, 6, 1, 3, 1, 6, 0, 3, 9, 3, 3>>, 0 - 11)
NAUTICAL_MILES == FMul(MILES, Lit64(0, <<1, 1, 5, 0, 8>>, 0 - 4))

d_lat_of_sum(self, other) == to_radians(FAdd(other.latitude, self.latitude))
d_lon_radians_first(self, other) ==
    FSub(to_radians(other.longitude), to_radians(self.longitude))
distance_c_undoubled(a) == FAtan2(FSqrt(a), FSqrt(FSub(One64, a)))

\* The locals of distance(): d_lat, d_lon, lat1, lat2, then a and c.
d_lat(self, other) == to_radians(FSub(other.latitude, self.latitude))
d_lon(self, other) == to_radians(FSub(other.longitude, self.longitude))
lat1(self) == to_radians(self.latitude)
lat2(other) == to_radians(other.latitude)

\* a, given sin(d_lat / 2), sin(d_lon / 2), cos(lat1) and cos(lat2).
distance_a_of(s_lat, s_lon, c1, c2) ==
    FAdd(FMul(s_lat, s_lat), FMul(FMul(FMul(s_lon, s_lon), c1), c2))
distance_a(self, other) ==
    distance_a_of(FSin(FDiv(d_lat(self, other), Two)),
                  FSin(FDiv(d_lon(self, other), Two)),
                  FCos(lat1(self)), FCos(lat2(other)))

distance_c(a) == FMul(Two, FAtan2(FSqrt(a), FSqrt(FSub(One64, a))))

distance(self, other) == distance_c(distance_a(self, other))

distance_mi_validated(self, other) ==
    IF FLe(FAbs(self.latitude), Lit64(0, <<9, 0>>, 0))
    THEN FMul(MILES, distance(self, other))
    ELSE [rejected |-> "latitude"]
distance_km_in_nautical_mi(self, other) ==
    FMul(NAUTICAL_MILES, distance(self, other))

distance_mi(self, other) == FMul(MILES, distance(self, other))
distance_nautical_mi_from_mi(self, other) ==
    FMul(Lit64(0, <<1, 1, 5, 0, 8>>, 0 - 4), distance_mi(self, other))
distance_nautical_mi(self, other) == FMul(NAUTICAL_MILES, distance(self, other))
distance_km(self, other) == FMul(KILOMETERS, distance(self, other))

\* ------------------------------------------------------------------
\* A client of the crate: it builds two Locations from tuples, then calls
\* one of the three public distance methods on them.

\* How many of the tuples below the client draws from.
NumCoords64 == 6
NumCoords32 == 1

\* (f64, f64) tuples: the two points of the crate's tests, two nearly
\* antipodal points, a point outside the latitude and longitude ranges,
\* and tuples with a NaN or an infinite component.
AllCoords64 ==
    << <<Lit64(0, <<3, 8, 8, 9, 8, 5, 5, 6>>, 0 - 6),
         Lit64(1, <<7, 7, 0, 3, 7, 8, 5, 2>>, 0 - 6)>>,
       <<Lit64(0, <<3, 8, 8, 9, 7, 1, 4, 7>>, 0 - 6),
         Lit64(1, <<7, 7, 0, 4, 3, 9, 3, 4>>, 0 - 6)>>,
       <<Lit64(0, <<2, 5>>, 0 - 1), Lit64(0, <<0>>, 0)>>,
       <<Lit64(1, <<2, 5>>, 0 - 1), Lit64(0, <<1, 8, 0>>, 0)>>,
       <<Lit64(0, <<9, 5>>, 0), Lit64(0, <<2, 0, 0>>, 0)>>,
       <<NaN, Lit64(0, <<0>>, 0)>>,
       <<Inf(0), Lit64(0, <<1, 0>>, 0)>>,
       <<Lit64(0, <<0>>, 0), Inf(1)>> >>

\* (f32, f32) tuples: the one of the crate's test, then non-finite ones.
AllCoords32 ==
    << <<Lit32(0, <<3, 8, 8, 9, 8, 5, 5, 6>>, 0 - 6),
         Lit32(1, <<7, 7, 0, 3, 7, 8, 5, 2>>, 0 - 6)>>,
       <<Inf(1), NaN>>,
       <<NaN, Inf(0)>> >>

Coords64 == SubSeq(AllCoords64, 1, Min(NumCoords64, Len(AllCoords64)))
Coords32 == SubSeq(AllCoords32, 1, Min(NumCoords32, Len(AllCoords32)))

\* self, other: the two Locations, each <<>> until built, then <<loc>>.
\* made: the last conversion, <<[kind, tuple, loc]>>.
\* ret: the method called and the value it returned, <<[method, value]>>.
VARIABLES self, other, made, ret
vars == <<self, other, made, ret>>

Init == self = <<>> /\ other = <<>> /\ made = <<>> /\ ret = <<>>

\* let x = Location::from(t): x is self for the first tuple, other for the
\* second.
Bind(kind, t, loc) ==
    /\ other = <<>>
    /\ IF self = <<>>
       THEN self' = <<loc>> /\ other' = other
       ELSE self' = self /\ other' = <<loc>>
    /\ made' = <<[kind |-> kind, tuple |-> t, loc |-> loc]>>
    /\ ret' = ret

FromF64(i) == Bind("f64", Coords64[i], from_f64(Coords64[i]))
FromF32(i) == Bind("f32", Coords32[i], from_f32(Coords32[i]))

Call(method, value) ==
    /\ self # <<>> /\ other # <<>> /\ ret = <<>>
    /\ ret' = <<[method |-> method, value |-> value]>>
    /\ UNCHANGED <<self, other, made>>

DistanceMi == Call("distance_mi", distance_mi(self[1], other[1]))
DistanceNauticalMi ==
    Call("distance_nautical_mi", distance_nautical_mi(self[1], other[1]))
DistanceKm == Call("distance_km", distance_km(self[1], other[1]))

Next ==
    \/ \E i \in 1..Len(Coords64) : FromF64(i)
    \/ \E i \in 1..Len(Coords32) : FromF32(i)
    \/ DistanceMi
    \/ DistanceNauticalMi
    \/ DistanceKm

Spec == Init /\ [][Next]_vars

(***************************************************************************)
(* Properties.                                                             *)
(***************************************************************************)
HasBoth == self # <<>> /\ other # <<>>
Returned == ret # <<>>

UnitOf(method) ==
    CASE method = "distance_mi" -> MILES
      [] method = "distance_nautical_mi" -> NAUTICAL_MILES
      [] method = "distance_km" -> KILOMETERS

MethodOf(method, a, b) ==
    CASE method = "distance_mi" -> distance_mi(a, b)
      [] method = "distance_nautical_mi" -> distance_nautical_mi(a, b)
      [] method = "distance_km" -> distance_km(a, b)

\* A well-formed binary64 value.
IsF64(v) ==
    /\ DOMAIN v = {"k", "s", "m", "e"}
    /\ v.k \in {"fin", "inf", "nan"}
    /\ v.s \in {0, 1}
    /\ v.k = "fin" /\ v.m # <<>> =>
         /\ BBitLen(v.m) <= F64.p
         /\ v.e >= F64.emin /\ v.e <= F64.emax
         /\ (BBitLen(v.m) = F64.p \/ v.e = F64.emin)

FiniteLoc(loc) == IsFinite(loc.latitude) /\ IsFinite(loc.longitude)

\* Latitude in [-90, 90] and longitude in [-180, 180].
InRange(loc) ==
    /\ FiniteLoc(loc)
    /\ FLe(FAbs(loc.latitude), Lit64(0, <<9, 0>>, 0))
    /\ FLe(FAbs(loc.longitude), Lit64(0, <<1, 8, 0>>, 0))

\* The position of a finite f64 magnitude among the finite magnitudes, and
\* whether two finite values of one sign are at most k positions apart.
OrdOf(x) == BAdd(BShl(BFromInt(x.e - F64.emin), F64.p - 1), x.m)
OrdGap(p, q) == IF BCmp(p, q) >= 0 THEN BSub(p, q) ELSE BSub(q, p)
WithinUlps(x, y, k) ==
    /\ IsFinite(x) /\ IsFinite(y)
    /\ (x.s = y.s \/ (IsZero(x) /\ IsZero(y)))
    /\ BCmp(OrdGap(OrdOf(x), OrdOf(y)), BFromInt(k)) <= 0

\* Two finite values of either format that are the same real number.
SameReal(x, y) ==
    /\ x.s = y.s
    /\ BShl(x.m, x.e - Min(x.e, y.e)) = BShl(y.m, y.e - Min(x.e, y.e))

Start == Location(Lit64(0, <<3, 8, 8, 9, 8, 5, 5, 6>>, 0 - 6),
                  Lit64(1, <<7, 7, 0, 3, 7, 8, 5, 2>>, 0 - 6))
End == Location(Lit64(0, <<3, 8, 8, 9, 7, 1, 4, 7>>, 0 - 6),
                Lit64(1, <<7, 7, 0, 4, 3, 9, 3, 4>>, 0 - 6))
K1508 == Lit64(0, <<1, 1, 5, 0, 8>>, 0 - 4)

\* C1 (as the spec states it, for Locations in range): for every pair of
\* Locations with latitudes in [-90, 90] and longitudes in [-180, 180], the
\* value a method returned for (self, other) is == to the one it returns
\* for (other, self).
C1_SymmetryInRange ==
    (Returned /\ InRange(self[1]) /\ InRange(other[1])) =>
        FEq(ret[1].value, MethodOf(ret[1].method, other[1], self[1]))

\* C2 (amended): for every Location a with finite latitude and longitude,
\* a.distance_mi(a), a.distance_nautical_mi(a) and a.distance_km(a) are
\* == 0.0.
C2_ZeroDistanceFinite ==
    (Returned /\ self = other /\ FiniteLoc(self[1])) =>
        FEq(ret[1].value, Zero(0))

C2_Witness ==
    /\ Returned /\ self = other /\ self[1] = Start
    /\ ret[1].method = "distance_km"

\* C2 (as the spec states it): a.distance_X(a) == 0.0 for any Location a.
C2_ZeroDistance == (Returned /\ self = other) => FEq(ret[1].value, Zero(0))

\* The quotient distance_mi / distance_km for the pair in hand: the value
\* returned is one of the two, the other method is applied to the same pair.
MiOverKm ==
    IF ret[1].method = "distance_mi"
    THEN FDiv(ret[1].value, distance_km(self[1], other[1]))
    ELSE FDiv(distance_mi(self[1], other[1]), ret[1].value)

\* C3 (amended): for every pair at a finite, non-zero distance,
\* a.distance_mi(b) / a.distance_km(b) is within 2 units in the last place
\* of MILES / KILOMETERS.
C3_RatioWithinTwoUlps ==
    (/\ Returned /\ ret[1].method \in {"distance_mi", "distance_km"}
     /\ IsFinite(ret[1].value) /\ ~IsZero(ret[1].value)) =>
        WithinUlps(MiOverKm, FDiv(MILES, KILOMETERS), 2)

C3_Witness ==
    /\ Returned /\ ret[1].method = "distance_mi"
    /\ self[1] = Start /\ other[1] = End
    /\ IsFinite(ret[1].value) /\ ~IsZero(ret[1].value)

\* C3 (as the spec states it, read with a tolerance of 2 units in the last
\* place): for every pair, a.distance_mi(b) / a.distance_km(b) equals
\* MILES / KILOMETERS.
C3_RatioAllPairs ==
    (Returned /\ ret[1].method \in {"distance_mi", "distance_km"}) =>
        WithinUlps(MiOverKm, FDiv(MILES, KILOMETERS), 2)

\* C4 (amended): every method returns (its unit constant) * distance(a, b),
\* the constant on the left, with MILES = 3958.76131603933, KILOMETERS =
\* 6371.0087714 and NAUTICAL_MILES = MILES * 1.1508; a finite
\* distance_nautical_mi(a, b) is within 4 units in the last place of
\* 1.1508 * distance_mi(a, b).
C4_Scaling ==
    /\ MILES = Lit64(0, <<3, 9, 5, 8, 7, 6, 1, 3, 1, 6, 0, 3, 9, 3, 3>>, 0 - 11)
    /\ KILOMETERS = Lit64(0, <<6, 3, 7, 1, 0, 0, 8, 7, 7, 1, 4>>, 0 - 7)
    /\ NAUTICAL_MILES = FMul(MILES, K1508)
    /\ Returned =>
         /\ ret[1].value = FMul(UnitOf(ret[1].method), distance(self[1], other[1]))
         /\ (ret[1].method = "distance_nautical_mi" /\ IsFinite(ret[1].value)) =>
              WithinUlps(ret[1].value,
                         FMul(K1508, distance_mi(self[1], other[1])), 4)

C4_Witness ==
    /\ Returned /\ ret[1].method = "distance_nautical_mi"
    /\ self[1] = End /\ other[1] = Start
    /\ IsFinite(ret[1].value) /\ ~IsZero(ret[1].value)

\* C4 (as the spec states it): a finite distance_nautical_mi(a, b) is ==
\* 1.1508 * distance_mi(a, b).
C4_NauticalExact ==
    (Returned /\ ret[1].method = "distance_nautical_mi" /\ IsFinite(ret[1].value)) =>
        FEq(ret[1].value, FMul(K1508, distance_mi(self[1], other[1])))

\* C5: for start = (38.898556, -77.037852) and end = (38.897147, -77.043934),
\* start.distance_mi(end) is 0.3412300584989182 and start.distance_km(end)
\* is 0.549156547264883.
C5_DocumentedValues ==
    (Returned /\ self[1] = Start /\ other[1] = End) =>
        /\ ret[1].method = "distance_mi" =>
             ret[1].value =
               Lit64(0, <<3, 4, 1, 2, 3, 0, 0, 5, 8, 4, 9, 8, 9, 1, 8, 2>>, 0 - 16)
        /\ ret[1].method = "distance_km" =>
             ret[1].value =
               Lit64(0, <<5, 4, 9, 1, 5, 6, 5, 4, 7, 2, 6, 4, 8, 8, 3>>, 0 - 15)

C5_Witness ==
    /\ Returned /\ self[1] = Start /\ other[1] = End
    /\ ret[1].method = "distance_km"

\* y64 is what `x32 as f64` must be: the same real number as a well-formed
\* f64, or the same infinity or NaN.
IsWidened(x32, y64) ==
    IF IsFinite(x32) THEN IsFinite(y64) /\ IsF64(y64) /\ SameReal(x32, y64)
    ELSE y64 = x32

TestTuple32 == <<Lit32(0, <<3, 8, 8, 9, 8, 5, 5, 6>>, 0 - 6),
                 Lit32(1, <<7, 7, 0, 3, 7, 8, 5, 2>>, 0 - 6)>>

\* C6: Location::from of an (f32, f32) tuple holds the first component,
\* widened, as latitude and the second, widened, as longitude; for
\* (38.898556_f32, -77.037852_f32) that is latitude 38.898555755615234 and
\* longitude -77.03784942626953, not the decimal values 38.898556 and
\* -77.037852.
C6_F32Widening ==
    (made # <<>> /\ made[1].kind = "f32") =>
        /\ IsWidened(made[1].tuple[1], made[1].loc.latitude)
        /\ IsWidened(made[1].tuple[2], made[1].loc.longitude)
        /\ made[1].tuple = TestTuple32 =>
             /\ Location_eq(made[1].loc,
                  Location(Lit64(0, <<3, 8, 8, 9, 8, 5, 5, 5, 7, 5, 5, 6, 1, 5, 2, 3, 4>>, 0 - 15),
                           Lit64(1, <<7, 7, 0, 3, 7, 8, 4, 9, 4, 2, 6, 2, 6, 9, 5, 3>>, 0 - 14)))
             /\ ~FEq(made[1].loc.latitude, Start.latitude)
             /\ ~FEq(made[1].loc.longitude, Start.longitude)

C6_Witness ==
    /\ made # <<>> /\ made[1].kind = "f32" /\ made[1].tuple = TestTuple32
    /\ other = <<made[1].loc>>

\* C7 (amended): Location::from((lat, lon)) holds lat as latitude and lon
\* as longitude, bit for bit; it is equal under the derived PartialEq to
\* Location { latitude: lat, longitude: lon } whenever neither lat nor lon
\* is NaN.
C7_F64VerbatimNoNaN ==
    (made # <<>> /\ made[1].kind = "f64") =>
        /\ made[1].loc.latitude = made[1].tuple[1]
        /\ made[1].loc.longitude = made[1].tuple[2]
        /\ (~IsNaN(made[1].tuple[1]) /\ ~IsNaN(made[1].tuple[2])) =>
             Location_eq(made[1].loc, Location(made[1].tuple[1], made[1].tuple[2]))

C7_Witness ==
    /\ made # <<>> /\ made[1].kind = "f64"
    /\ made[1].tuple = <<Start.latitude, Start.longitude>>
    /\ self = <<made[1].loc>>

\* C7 (as the spec states it): for every (lat, lon), Location::from((lat,
\* lon)) is equal under the derived PartialEq to Location { latitude: lat,
\* longitude: lon }.
C7_F64Verbatim ==
    (made # <<>> /\ made[1].kind = "f64") =>
        Location_eq(made[1].loc, Location(made[1].tuple[1], made[1].tuple[2]))

\* C8: a call of any of the three methods, on any pair of Locations, in or
\* out of range, returns an f64 (finite, infinite or NaN) and nothing else;
\* the step from a bound pair is that call, and it leaves self and other
\* as they were.
C8_Totality ==
    /\ [](Returned => IsF64(ret[1].value))
    /\ [][(HasBoth /\ ~Returned) =>
            (Returned' /\ self' = self /\ other' = other)]_vars

C8_Witness ==
    /\ Returned /\ FiniteLoc(self[1]) /\ ~InRange(self[1])
    /\ FiniteLoc(other[1]) /\ ~InRange(other[1])

\* The haversine formula, written out from the arithmetic of f64.
HalfSin(x) == FSin(FDiv(x, Two))
Squared(x) == FMul(x, x)
FormulaA(p, q) ==
    FAdd(Squared(HalfSin(to_radians(FSub(q.latitude, p.latitude)))),
         FMul(FMul(Squared(HalfSin(to_radians(FSub(q.longitude, p.longitude)))),
                   FCos(to_radians(p.latitude))),
              FCos(to_radians(q.latitude))))
FormulaC(a) == FMul(Two, FAtan2(FSqrt(a), FSqrt(FSub(One64, a))))

\* C9: distance(self, other) is c = 2 * atan2(sqrt(a), sqrt(1 - a)) with
\* a = sin^2(dlat/2) + sin^2(dlon/2) * cos(lat1) * cos(lat2), dlat and dlon
\* the radians of the differences taken in degrees, lat1 and lat2 the
\* radians of the latitudes; no radius is applied, so what a method returns
\* is its unit constant times that c.
C9_Formula ==
    /\ (HasBoth /\ ~Returned) =>
         distance(self[1], other[1]) = FormulaC(FormulaA(self[1], other[1]))
    /\ Returned =>
         ret[1].value =
           FMul(UnitOf(ret[1].method), FormulaC(FormulaA(self[1], other[1])))

C9_Witness ==
    /\ Returned /\ self[1] = End /\ other[1] = Start
    /\ ret[1].method = "distance_mi" /\ ~IsZero(ret[1].value)

\* C10 (as the spec states it): for every pair of Locations in range, a is
\* in [0, 1], distance() is in [0, pi], and what a method returns is in
\* [0, pi * its unit constant].
C10_RangeBound ==
    (HasBoth /\ InRange(self[1]) /\ InRange(other[1])) =>
        /\ FLe(Zero(0), distance_a(self[1], other[1]))
        /\ FLe(distance_a(self[1], other[1]), One64)
        /\ FLe(Zero(0), distance(self[1], other[1]))
        /\ FLe(distance(self[1], other[1]), PI)
        /\ Returned =>
             /\ FLe(Zero(0), ret[1].value)
             /\ FLe(ret[1].value, FMul(PI, UnitOf(ret[1].method)))

====
